---- MODULE Spec2Model ----
(***************************************************************************)
(* Number-Alchemist: the expression-node model (dict_ast.mjs), the          *)
(* replaceable handle (replace_able.mjs), the dictionary generator          *)
(* (dict_geneator.mjs) and the proof search (dict.mjs).                     *)
(*                                                                         *)
(* Values are exact rationals <<n, d>> with d > 0 and gcd(n, d) = 1 (the    *)
(* numeric primitive bigfloat.mjs is not part of the sources; it is         *)
(* modelled from its contract).  Strings are sequences of one-character     *)
(* strings, so that lengths, parentheses and parsing are real.              *)
(***************************************************************************)
EXTENDS Integers, Sequences, FiniteSets, TLC

----------------------------------------------------------------------------
(* bigfloat: exact rational arithmetic *)

Abs(x) == IF x < 0 THEN -x ELSE x

RECURSIVE Gcd(_, _)
Gcd(a, b) == IF b = 0 THEN a ELSE Gcd(b, a % b)

\* floor(n / d) for d > 0 (TLC's \div already floors for a positive divisor)
FloorDiv(n, d) == n \div d

Norm(n, d) ==
    LET s == IF d < 0 THEN -1 ELSE 1
        g == Gcd(Abs(n), Abs(d))
    IN  <<(s * n) \div g, (s * d) \div g>>

V(n) == <<n, 1>>
VIsInt(a) == a[2] = 1
VNeg(a) == <<-a[1], a[2]>>
VAbs(a) == <<Abs(a[1]), a[2]>>
VAdd(a, b) == Norm(a[1] * b[2] + b[1] * a[2], a[2] * b[2])
VSub(a, b) == Norm(a[1] * b[2] - b[1] * a[2], a[2] * b[2])
VMul(a, b) == Norm(a[1] * b[1], a[2] * b[2])
VIsZero(a) == a[1] = 0
\* div, mod and pow signal a domain error: the callers test VDivOk first
VDivOk(a, b) == ~VIsZero(b)
VDiv(a, b) == Norm(a[1] * b[2], a[2] * b[1])
VFloor(a) == <<FloorDiv(a[1], a[2]), 1>>
VLess(a, b) == a[1] * b[2] < b[1] * a[2]
VMod(a, b) == VSub(a, VMul(b, VFloor(VDiv(a, b))))

RECURSIVE IPow(_, _)
IPow(b, e) == IF e = 0 THEN 1 ELSE b * IPow(b, e - 1)

\* pow is defined for an integral exponent, and for a zero base only when
\* the exponent is not negative
VPowOk(a, b) == VIsInt(b) /\ ~(VIsZero(a) /\ b[1] < 0)
VPow(a, b) ==
    IF b[1] >= 0 THEN Norm(IPow(a[1], b[1]), IPow(a[2], b[1]))
    ELSE Norm(IPow(a[2], -b[1]), IPow(a[1], -b[1]))

\* the value of a failed computation (a domain error, a stack overflow)
Bad == <<0, 0>>

----------------------------------------------------------------------------
(* strings *)

Digits == <<"0", "1", "2", "3", "4", "5", "6", "7", "8", "9">>
IsDigit(c) == \E i \in 1..10 : Digits[i] = c
DigitVal(c) == (CHOOSE i \in 1..10 : Digits[i] = c) - 1

RECURSIVE DigitsToInt(_)
DigitsToInt(ds) ==
    IF ds = <<>> THEN 0
    ELSE 10 * DigitsToInt(SubSeq(ds, 1, Len(ds) - 1)) + DigitVal(ds[Len(ds)])

----------------------------------------------------------------------------
(* precedence_t *)

Prec(op) ==
    CASE op = "u-" -> 4
      [] op = "^" -> 3
      [] op \in {"*", "/", "%"} -> 2
      [] op \in {"+", "-"} -> 1
      [] OTHER -> 0

----------------------------------------------------------------------------
(* The node heap.  A handle is the index of the node whose Proxy it is;     *)
(* the Proxy forwards every access to heap[h].to (replace_data.to).         *)

NoStr == <<>>
EmptyCache == [to_string |-> NoStr, calculate |-> FALSE, calculation_steps |-> FALSE]

\* number_node_t
NumberNode(id, digits) ==
    [kind |-> "num", value |-> digits, operator |-> "", children |-> <<>>,
     to |-> id, cache |-> EmptyCache, parents |-> {}]

OperatorNode(id, op, ch) ==
    [kind |-> "op", value |-> <<>>, operator |-> op, children |-> ch,
     to |-> id, cache |-> EmptyCache, parents |-> {}]

\* what a handle resolves to (replace_able_t's get trap)
Self(hp, h) == hp[h].to
IsOp(hp, h) == hp[Self(hp, h)].kind = "op"
OpOf(hp, h) == hp[Self(hp, h)].operator
ChildrenOf(hp, h) == hp[Self(hp, h)].children
is_neg_node(hp, h) == IsOp(hp, h) /\ OpOf(hp, h) = "u-"
get_abs_node(hp, h) == IF is_neg_node(hp, h) THEN ChildrenOf(hp, h)[1] ELSE h

CacheEmpty(c) == c.to_string = NoStr /\ ~c.calculate /\ ~c.calculation_steps

\* ast_node_t.registerParent: the parent set lives on the current target
registerParent(hp, child, parent) ==
    [hp EXCEPT ![Self(hp, child)].parents = @ \cup {parent}]

RECURSIVE RegisterAll(_, _, _)
RegisterAll(hp, chs, parent) ==
    IF chs = <<>> THEN hp
    ELSE RegisterAll(registerParent(hp, Head(chs), parent), Tail(chs), parent)

number_node_t(hp, digits) ==
    [hp |-> Append(hp, NumberNode(Len(hp) + 1, digits)), h |-> Len(hp) + 1]

\* operator_node_t's constructor, normalisation included: [hp, h].  The
\* parents are registered on the children as passed, after the children
\* list was rewritten.
Allocate(hp, op, ch, registered) ==
    [hp |-> RegisterAll(Append(hp, OperatorNode(Len(hp) + 1, op, ch)),
                        registered, Len(hp) + 1),
     h |-> Len(hp) + 1]

\* a constructor without any normalisation
plainNode(hp, op, ch) == Allocate(hp, op, ch, ch)

\* a constructor that strips the signs of the operands of '*' and '/' and
\* forgets to put the sign back
signDropped(hp, op, ch) ==
    IF Len(ch) = 2 /\ op \in {"*", "/"}
    THEN Allocate(hp, op, <<get_abs_node(hp, ch[1]), get_abs_node(hp, ch[2])>>, ch)
    ELSE Allocate(hp, op, ch, ch)

\* a '+' or '-' whose right child is a unary minus
Flips(hp, op, ch) == Len(ch) = 2 /\ op \in {"+", "-"} /\ is_neg_node(hp, ch[2])

RECURSIVE operator_node_t(_, _, _)
Negated(nb) == operator_node_t(nb.hp, "u-", <<nb.h>>)

operator_node_t(hp, op, ch) ==
    IF op = "u-" /\ is_neg_node(hp, ch[1])
    THEN [hp |-> hp, h |-> ChildrenOf(hp, ch[1])[1]]
    ELSE IF Len(ch) = 2 /\ op \in {"*", "/"}
            /\ (is_neg_node(hp, ch[1]) # is_neg_node(hp, ch[2]))
    THEN Negated(operator_node_t(hp, op,
                     <<get_abs_node(hp, ch[1]), get_abs_node(hp, ch[2])>>))
    ELSE IF Len(ch) = 2 /\ op \in {"*", "/"}
            /\ is_neg_node(hp, ch[1]) /\ is_neg_node(hp, ch[2])
    THEN Allocate(hp, op, <<get_abs_node(hp, ch[1]), get_abs_node(hp, ch[2])>>, ch)
    ELSE IF Flips(hp, op, ch)
    THEN Allocate(hp, IF op = "+" THEN "-" ELSE "+",
                  <<ch[1], ChildrenOf(hp, ch[2])[1]>>, ch)
    ELSE Allocate(hp, op, ch, ch)

----------------------------------------------------------------------------
(* rendering: ast_node_t.toString, operator_node_t.toStringImpl and          *)
(* formatOperand.  The result is [hp, s, ok]: the heap with the caches      *)
(* filled on the way, the string, and ok = FALSE when the recursion does    *)
(* not end (a cyclic graph: the engine's stack overflows).                  *)

\* a test that never asks for parentheses
noParenthesis(parent_operator, current_operator) == FALSE

shouldAddParenthesis(parent_operator, current_operator) ==
    IF parent_operator = "" THEN FALSE
    ELSE Prec(current_operator) < Prec(parent_operator)

Paren(s) == <<"(">> \o s \o <<")">>

\* whether formatOperand wraps the operand's string in parentheses
FormatWraps(operator, parent_operator, is_left) ==
    IF parent_operator = operator /\ parent_operator \in {"-", "/"} /\ ~is_left
    THEN TRUE
    ELSE IF parent_operator = operator /\ parent_operator \in {"+", "*", "^"}
    THEN FALSE
    ELSE IF parent_operator = operator /\ parent_operator = "u-"
    THEN TRUE
    ELSE IF Prec(parent_operator) = Prec(operator)
    THEN TRUE
    ELSE shouldAddParenthesis(parent_operator, operator)

RECURSIVE toString(_, _, _, _)
RECURSIVE toStringImpl(_, _, _, _)
RECURSIVE formatOperand(_, _, _, _, _)

\* `(${...})` around a finished rendering
Wrapped(r, wraps) == IF r.ok /\ wraps THEN [r EXCEPT !.s = Paren(r.s)] ELSE r

formatOperand(hp, operand, parent_operator, is_left, path) ==
    IF ~IsOp(hp, operand) THEN toString(hp, operand, "", path)
    ELSE Wrapped(toString(hp, operand, parent_operator, path),
                 FormatWraps(OpOf(hp, operand), parent_operator, is_left))

\* `-${operand_str}`
Minus(a) == IF a.ok THEN [a EXCEPT !.s = <<"-">> \o a.s] ELSE a

\* `${left_str}${operator}${right_str}`, in parentheses when the parent binds tighter
Joined(left_str, operator, b, parens) ==
    IF ~b.ok THEN b
    ELSE [b EXCEPT !.s = IF parens THEN Paren(left_str \o <<operator>> \o b.s)
                         ELSE left_str \o <<operator>> \o b.s]

RightOperand(a, n, parent_operator, path) ==
    IF ~a.ok THEN a
    ELSE Joined(a.s, n.operator,
                formatOperand(a.hp, n.children[2], n.operator, FALSE, path),
                shouldAddParenthesis(parent_operator, n.operator))

\* toStringImpl of the node t (number_node_t's and operator_node_t's)
toStringImpl(hp, t, parent_operator, path) ==
    IF hp[t].kind = "num" THEN [hp |-> hp, s |-> hp[t].value, ok |-> TRUE]
    ELSE IF hp[t].operator = "u-"
    THEN Minus(formatOperand(hp, hp[t].children[1], "u-", FALSE, path))
    ELSE RightOperand(formatOperand(hp, hp[t].children[1], hp[t].operator, TRUE, path),
                      hp[t], parent_operator, path)

\* this.cache.to_string ??= ...
Cached(r, t) == IF r.ok THEN [r EXCEPT !.hp[t].cache.to_string = r.s] ELSE r

\* path: the nodes whose toStringImpl is running; meeting one of them again
\* with its cache still empty repeats the same calls without end
toString(hp, h, parent_operator, path) ==
    IF hp[Self(hp, h)].cache.to_string # NoStr
    THEN [hp |-> hp, s |-> hp[Self(hp, h)].cache.to_string, ok |-> TRUE]
    ELSE IF Self(hp, h) \in path THEN [hp |-> hp, s |-> NoStr, ok |-> FALSE]
    ELSE Cached(toStringImpl(hp, Self(hp, h), parent_operator, path \cup {Self(hp, h)}),
                Self(hp, h))

\* node.toString() called from outside: [hp, s, ok]
Render(hp, h) == toString(hp, h, "", {})

----------------------------------------------------------------------------
(* evaluation: calculateImpl, without the cache (Bad: a domain error or a   *)
(* recursion that does not end)                                             *)

Apply(op, a, b) ==
    IF a = Bad \/ b = Bad THEN Bad
    ELSE CASE op = "+" -> VAdd(a, b)
           [] op = "-" -> VSub(a, b)
           [] op = "*" -> VMul(a, b)
           [] op = "/" -> IF VDivOk(a, b) THEN VDiv(a, b) ELSE Bad
           [] op = "%" -> IF VDivOk(a, b) THEN VMod(a, b) ELSE Bad
           [] op = "^" -> IF VPowOk(a, b) THEN VPow(a, b) ELSE Bad
           [] OTHER -> Bad

RECURSIVE calculate(_, _, _)
calculate(hp, h, path) ==
    LET t == Self(hp, h)
        n == hp[t]
    IN  IF t \in path THEN Bad
        ELSE IF n.kind = "num" THEN V(DigitsToInt(n.value))
        ELSE IF n.operator = "u-"
        THEN LET a == calculate(hp, n.children[1], path \cup {t})
             IN  IF a = Bad THEN Bad ELSE VNeg(a)
        ELSE Apply(n.operator, calculate(hp, n.children[1], path \cup {t}),
                   calculate(hp, n.children[2], path \cup {t}))

Evaluate(hp, h) == calculate(hp, h, {})

----------------------------------------------------------------------------
(* The evaluation of a rendered string with the standard precedence and     *)
(* associativity (bigfloat.eval after '^' is read as the power operator):   *)
(*   expr  ::= term  { [+ -] term }                                         *)
(*   term  ::= unary { [times / %] unary }                                  *)
(*   unary ::= - unary | power                                              *)
(*   power ::= atom [ ^ unary ]          (right associative)                *)
(*   atom  ::= digits | ( expr )                                            *)
(* A parse result is [v, pos]: the value (or Bad) and the next position.    *)

At(s, i) == IF i <= Len(s) THEN s[i] ELSE ""

RECURSIVE ParseExpr(_, _), ParseExprRest(_, _, _), ParseTerm(_, _)
RECURSIVE ParseTermRest(_, _, _), ParseUnary(_, _), ParsePower(_, _)
RECURSIVE ParseAtom(_, _), ParseNumber(_, _, _)

ParseNumber(s, i, acc) ==
    IF IsDigit(At(s, i)) THEN ParseNumber(s, i + 1, 10 * acc + DigitVal(s[i]))
    ELSE [v |-> V(acc), pos |-> i]

ParseAtom(s, i) ==
    IF At(s, i) = "("
    THEN LET e == ParseExpr(s, i + 1)
         IN  IF At(s, e.pos) = ")" THEN [v |-> e.v, pos |-> e.pos + 1]
             ELSE [v |-> Bad, pos |-> e.pos]
    ELSE IF IsDigit(At(s, i)) THEN ParseNumber(s, i, 0)
    ELSE [v |-> Bad, pos |-> i]

ParsePower(s, i) ==
    LET b == ParseAtom(s, i)
    IN  IF At(s, b.pos) = "^"
        THEN LET e == ParseUnary(s, b.pos + 1)
             IN  [v |-> Apply("^", b.v, e.v), pos |-> e.pos]
        ELSE b

ParseUnary(s, i) ==
    IF At(s, i) = "-"
    THEN LET u == ParseUnary(s, i + 1)
         IN  [v |-> IF u.v = Bad THEN Bad ELSE VNeg(u.v), pos |-> u.pos]
    ELSE ParsePower(s, i)

ParseTermRest(s, i, acc) ==
    IF At(s, i) \in {"*", "/", "%"}
    THEN LET u == ParseUnary(s, i + 1)
         IN  ParseTermRest(s, u.pos, Apply(s[i], acc, u.v))
    ELSE [v |-> acc, pos |-> i]

ParseTerm(s, i) ==
    LET u == ParseUnary(s, i) IN ParseTermRest(s, u.pos, u.v)

ParseExprRest(s, i, acc) ==
    IF At(s, i) \in {"+", "-"}
    THEN LET t == ParseTerm(s, i + 1)
         IN  ParseExprRest(s, t.pos, Apply(s[i], acc, t.v))
    ELSE [v |-> acc, pos |-> i]

ParseExpr(s, i) ==
    LET t == ParseTerm(s, i) IN ParseExprRest(s, t.pos, t.v)

\* the value of a whole string
EvalString(s) ==
    LET e == ParseExpr(s, 1)
    IN  IF e.pos = Len(s) + 1 THEN e.v ELSE Bad

----------------------------------------------------------------------------
(* replacement: replace_able_t.replace, ast_node_t.get_replaced and         *)
(* clearParentsCache.  The WeakRefs of the parent sets are never cleared    *)
(* here: a parent the collector could drop is unreachable, and nothing      *)
(* reads its cache again.                                                   *)

\* the nodes clearParentsCache(t) empties: the parents of t, and the
\* parents of every parent whose cache was not empty when it was reached
RECURSIVE ClearedBy(_, _, _)
ParentsOf(hp, frontier) == {Self(hp, p) : p \in UNION {hp[x].parents : x \in frontier}}
ClearMore(hp, next, seen) ==
    IF next = {} THEN seen
    ELSE ClearedBy(hp, {x \in next : ~CacheEmpty(hp[x].cache)}, seen \cup next)
ClearedBy(hp, frontier, seen) == ClearMore(hp, ParentsOf(hp, frontier) \ seen, seen)

\* node.cache = {} on each of them, one node after the other
RECURSIVE Emptied(_, _)
Lowest(cleared) == CHOOSE t \in cleared : \A u \in cleared : t <= u
Emptied(hp, cleared) ==
    IF cleared = {} THEN hp
    ELSE Emptied([hp EXCEPT ![Lowest(cleared)].cache = EmptyCache],
                 cleared \ {Lowest(cleared)})

clearParentsCache(hp, t) == Emptied(hp, ClearedBy(hp, {t}, {}))

\* a transfer that overwrites the parents the new target had
parentsMoved(hp, this, obj) == [hp EXCEPT ![obj].parents = hp[this].parents]

\* obj.parents = [...this.parents, ...obj.parents]
Inherit(hp, this, obj) == [hp EXCEPT ![obj].parents = hp[this].parents \cup hp[obj].parents]

get_replaced(hp, this, obj) == Inherit(clearParentsCache(hp, this), this, obj)

\* h.replace(obj): the method runs on h's current target, and it is that
\* target's own replace_data that is redirected
replace(hp, h, obj) ==
    IF Self(hp, obj) = Self(hp, h) THEN hp
    ELSE [get_replaced(hp, Self(hp, h), Self(hp, obj)) EXCEPT ![Self(hp, h)].to = Self(hp, obj)]

----------------------------------------------------------------------------
(* dictionaries: a Map in insertion order, ks the keys and at the entries   *)

EmptyDict == [ks |-> <<>>, at |-> <<>>]
Has(d, k) == k \in DOMAIN d.at
Put(d, k, h) ==
    IF Has(d, k) THEN [d EXCEPT !.at[k] = h]
    ELSE [ks |-> Append(d.ks, k), at |-> (k :> h) @@ d.at]

\* baseAdd: [hp, d, ok]; ok = FALSE when a rendering it needs overflows
Shorter(old_len, b, d, key, value) ==
    IF ~b.ok THEN [hp |-> b.hp, d |-> d, ok |-> FALSE]
    ELSE IF old_len > Len(b.s)
    THEN [hp |-> replace(b.hp, d.at[key], value), d |-> d, ok |-> TRUE]
    ELSE [hp |-> b.hp, d |-> d, ok |-> TRUE]

Compared(a, d, key, value) ==
    IF ~a.ok THEN [hp |-> a.hp, d |-> d, ok |-> FALSE]
    ELSE Shorter(Len(a.s), Render(a.hp, value), d, key, value)

baseAdd(hp, d, key, value) ==
    IF ~Has(d, key) THEN [hp |-> hp, d |-> Put(d, key, value), ok |-> TRUE]
    ELSE Compared(Render(hp, d.at[key]), d, key, value)

\* an add that forgets the negation
addValueOnly(hp, d, key, value) == baseAdd(hp, d, key, value)

\* add: the value, then its negation under a unary minus
AddNode(n, d, key) == baseAdd(n.hp, d, key, n.h)

AddNegation(r1, key, value) ==
    IF ~r1.ok THEN r1
    ELSE AddNode(operator_node_t(r1.hp, "u-", <<value>>), r1.d, VNeg(key))

add(hp, d, key, value) == AddNegation(baseAdd(hp, d, key, value), key, value)

----------------------------------------------------------------------------
(* mergeDictionary.  A merge state is [hp, d, ok]; ok = FALSE when an       *)
(* error escapes (the modulo and the division are outside the try).        *)

AddBuilt(n, d, key) == add(n.hp, d, key, n.h)

\* add(result, key, new operator_node_t(op, [val1, val2]))
AddOp(st, key, op, val1, val2) ==
    IF ~st.ok THEN st
    ELSE AddBuilt(operator_node_t(st.hp, op, <<val1, val2>>), st.d, key)

MergeMod(st, key1, val1, key2, val2) ==
    IF ~VDivOk(key1, key2) THEN [st EXCEPT !.ok = FALSE]
    ELSE AddOp(st, VMod(key1, key2), "%", val1, val2)

MergeDiv(st, key1, val1, key2, val2) ==
    IF st.ok /\ VIsInt(VDiv(key1, key2))
    THEN AddOp(st, VDiv(key1, key2), "/", val1, val2)
    ELSE st

\* an error inside the try leaves what was done before it
Caught(st) == [st EXCEPT !.ok = TRUE]

MergePow(st, key1, val1, key2, val2, max_len) ==
    IF \/ ~st.ok
       \/ VLess(V(max_len), VAbs(key1))
       \/ VLess(V(max_len), VAbs(key2))
       \/ ~VPowOk(key1, key2)
    THEN st
    ELSE Caught(AddOp(st, VPow(key1, key2), "^", val1, val2))

\* the body of the inner loop for one pair of entries
MergePair(st, key1, val1, key2, val2, max_len) ==
    MergePow(
        MergeDiv(
            MergeMod(
                AddOp(AddOp(AddOp(st, VAdd(key1, key2), "+", val1, val2),
                            VSub(key1, key2), "-", val1, val2),
                      VMul(key1, key2), "*", val1, val2),
                key1, val1, key2, val2),
            key1, val1, key2, val2),
        key1, val1, key2, val2, max_len)

RECURSIVE MergeLoop(_, _, _, _, _, _)
MergeLoop(st, d1, d2, i, j, max_len) ==
    IF ~st.ok \/ i > Len(d1.ks) THEN st
    ELSE IF j > Len(d2.ks) THEN MergeLoop(st, d1, d2, i + 1, 1, max_len)
    ELSE MergeLoop(MergePair(st, d1.ks[i], d1.at[d1.ks[i]],
                             d2.ks[j], d2.at[d2.ks[j]], max_len),
                   d1, d2, i, j + 1, max_len)

mergeDictionary(hp, dict_1, dict_2, max_len) ==
    MergeLoop([hp |-> hp, d |-> EmptyDict, ok |-> TRUE], dict_1, dict_2, 1, 1, max_len)

----------------------------------------------------------------------------
(* generateRecursive, with its cache geneCache (gc: digit string -> Map).   *)
(* A generator state is [hp, gc, d, ok].                                    *)

RECURSIVE generateRecursive(_, _, _, _)
RECURSIVE GenSplits(_, _, _, _)

Merged(m, gc) == [hp |-> m.hp, gc |-> gc, d |-> m.d, ok |-> m.ok]

MergeSplit(l, r, max_len) ==
    IF ~r.ok THEN r
    ELSE Merged(mergeDictionary(r.hp, l.d, r.d, max_len), r.gc)

RightSplit(l, n, i, max_len) ==
    IF ~l.ok THEN l
    ELSE MergeSplit(l, generateRecursive(l.hp, l.gc, SubSeq(n, i + 1, Len(n)), max_len),
                    max_len)

\* the split loop: every split is merged, each overwriting the last
GenSplits(st, n, i, max_len) ==
    IF ~st.ok \/ i >= Len(n) THEN st
    ELSE GenSplits(RightSplit(generateRecursive(st.hp, st.gc, SubSeq(n, 1, i), max_len),
                              n, i, max_len),
                   n, i + 1, max_len)

\* geneCache.set(n, result)
Stored(a, gc, n) == [hp |-> a.hp, gc |-> (n :> a.d) @@ gc, d |-> a.d, ok |-> a.ok]

AddLeaf(leaf, d, gc, n) == Stored(add(leaf.hp, d, V(DigitsToInt(n)), leaf.h), gc, n)

AddSelf(s, n) == IF ~s.ok THEN s ELSE AddLeaf(number_node_t(s.hp, n), s.d, s.gc, n)

generateRecursive(hp, gc, n, max_len) ==
    IF n \in DOMAIN gc THEN [hp |-> hp, gc |-> gc, d |-> gc[n], ok |-> TRUE]
    ELSE AddSelf(GenSplits([hp |-> hp, gc |-> gc, d |-> EmptyDict, ok |-> TRUE],
                           n, 1, max_len), n)

\* new Map([...a, ...b])
Union(a, b) ==
    [ks |-> a.ks \o SelectSeq(b.ks, LAMBDA k : ~Has(a, k)),
     at |-> b.at @@ a.at]

United(merged, result) ==
    [hp |-> merged.hp, gc |-> result.gc, d |-> Union(merged.d, result.d), ok |-> merged.ok]

SelfMerge(leaf, result, num_str) ==
    United(mergeDictionary(leaf.hp, Put(EmptyDict, V(DigitsToInt(num_str)), leaf.h),
                           Put(EmptyDict, V(DigitsToInt(num_str)), leaf.h),
                           2 * Len(num_str)),
           result)

SelfDict(result, num_str) ==
    IF ~result.ok THEN result
    ELSE SelfMerge(number_node_t(result.hp, num_str), result, num_str)

\* expression_dictionary_t's constructor: [hp, gc, d, ok]
Construct(hp, gc, num_str) ==
    SelfDict(generateRecursive(hp, gc, num_str, 2 * Len(num_str)), num_str)

----------------------------------------------------------------------------
(* The search engine: expression_dictionary_t                               *)

\* Array.prototype.sort((a, b) => b.compare(a)): descending by signed value
RECURSIVE SortDesc(_)
SortDesc(ks) ==
    IF ks = <<>> THEN <<>>
    ELSE LET rest == SortDesc(Tail(ks))
             k == Head(ks)
             before == SelectSeq(rest, LAMBDA x : VLess(k, x))
             after == SelectSeq(rest, LAMBDA x : ~VLess(k, x))
         IN  before \o <<k>> \o after

\* a cache that is never dropped once it is built
keptKeys(sk, d) == IF sk = <<>> THEN SortDesc(d.ks) ELSE sk

\* getKeys: the cached array is dropped only when its length differs
getKeys(sk, d) == IF Len(sk) # Len(d.ks) THEN SortDesc(d.ks) ELSE sk

\* getAst: the handle stored for a value, 0 for undefined
getAst(d, num) == IF Has(d, num) THEN d.at[num] ELSE 0

RECURSIVE FactorLoop(_, _, _, _)
FactorLoop(num, i, factor1, factor2) ==
    IF ~VLess(V(i * i), num) THEN <<factor1, factor2>>
    ELSE IF VIsZero(VMod(num, V(i)))
         THEN FactorLoop(num, i + 1, VDiv(num, V(i)), V(i))
         ELSE FactorLoop(num, i + 1, factor1, factor2)

\* a factorize that loses the sign of its argument
factorizeUnsigned(num) == FactorLoop(VAbs(num), 2, V(1), VAbs(num))

factorize(num) ==
    IF VLess(num, V(0))
    THEN LET result == FactorLoop(VNeg(num), 2, V(1), VNeg(num))
         IN  <<result[2], VNeg(result[1])>>
    ELSE FactorLoop(num, 2, V(1), num)

----------------------------------------------------------------------------
(* Bounds of the exploration *)

MaxCalls == 3
MaxJumps == 1
MaxTimes == 6
MaxBack == 40
Bases == {<<"2">>, <<"3">>, <<"2", "1">>}
Depths == {0, 1}

\* the targets offered to each successive prove call on the dictionary of a base
Script(b) ==
    IF b = <<"2">> THEN <<{V(-3), <<1, 2>>, V(100)}, {V(9)}>>
    ELSE IF b = <<"3">> THEN <<{V(2)}, {V(-4)}, {V(8)}>>
    ELSE <<{V(-5)}>>

Targets(b, n) == IF n <= Len(Script(b)) THEN Script(b)[n] ELSE {}

\* backward jumps are explored on the smallest dictionary only
Jumps(b) == IF b = <<"2">> THEN MaxJumps ELSE 0

----------------------------------------------------------------------------
(* State of one dictionary and of the prove call running on it *)

VARIABLES
    base,        \* the digit string the dictionary was built from
    heap,        \* every node ever constructed
    data,        \* this.data
    sortedKeys,  \* this.sortedKeys (<<>> while absent)
    stack,       \* the active #baseAstProve / proveAst invocations
    ret,         \* what the invocation that just ended handed to its caller
    status,      \* "idle", "running", or "waiting" while the callback is awaited
    calls,       \* prove calls started so far
    jumps,       \* jump-backs taken by the running call
    last,        \* the latest prove call (known: its target was a key when it
                 \* started) and how it ended
    added,       \* the latest add made directly on the dictionary
    parked       \* the prove calls suspended while another one runs

vars == <<base, heap, data, sortedKeys, stack, ret, status, calls, jumps, last, added, parked>>

NoRet == [kind |-> "none", h |-> 0, err |-> ""]
Returned(h) == [kind |-> "value", h |-> h, err |-> ""]
Thrown(e) == [kind |-> "error", h |-> 0, err |-> e]

\* the locals of one #baseAstProve invocation, at its first line
Frame(num, max_depth) ==
    [kind |-> "base", num |-> num, max_depth |-> max_depth, pc |-> "enter",
     i |-> 0, key_list |-> <<>>, result |-> 0, proofs |-> <<>>,
     factors |-> <<>>, product |-> V(0), times |-> 0, won |-> ""]

Top == stack[Len(stack)]
Pop == SubSeq(stack, 1, Len(stack) - 1)
SetTop(f) == [stack EXCEPT ![Len(stack)] = f]
Running == status = "running" /\ stack # <<>>
AtPc(pc) == Running /\ ret.kind = "none" /\ Top.kind = "base" /\ Top.pc = pc
Awaited(pc) == Running /\ ret.kind # "none" /\ Top.kind = "base" /\ Top.pc = pc

\* the chain of warpped_callbacks from invocation k outwards; the outermost
\* one is prove's wrapper, which renders the outermost result
\* said: the string handed to prove's callback (NoStr: it was not invoked),
\* node: the node that was rendered for it
Rendered(r, node) == [hp |-> r.hp, ok |-> r.ok, said |-> r.s, node |-> node]

Notify(hp, stk, k) ==
    IF \A j \in 1..k : stk[j].result # 0
    THEN Rendered(Render(hp, stk[1].result), stk[1].result)
    ELSE [hp |-> hp, ok |-> TRUE, said |-> NoStr, node |-> 0]

\* result = this.getAst(num_str); if (result == node) await warpped_callback()
Called(n, d, result) ==
    [hp |-> n.hp, d |-> d, result |-> result, ok |-> n.ok, said |-> n.said, node |-> n.node]

\* use_result ended without a call of the callback
Silent(hp, d, result, ok) ==
    [hp |-> hp, d |-> d, result |-> result, ok |-> ok, said |-> NoStr, node |-> 0]

Looked(a, stk, node, result) ==
    IF ~a.ok THEN Silent(a.hp, a.d, stk[Len(stk)].result, FALSE)
    ELSE IF result # node THEN Silent(a.hp, a.d, result, TRUE)
    ELSE Called(Notify(a.hp, [stk EXCEPT ![Len(stk)].result = result], Len(stk)),
                a.d, result)

Added(a, stk, node) == Looked(a, stk, node, getAst(a.d, stk[Len(stk)].num))

\* a use_result that files the node under the negated key
filedUnderNegation(hp, d, stk, node) ==
    IF VIsInt(stk[Len(stk)].num)
    THEN Added(add(hp, d, VNeg(stk[Len(stk)].num), node), stk, node)
    ELSE Added([hp |-> hp, d |-> d, ok |-> TRUE], stk, node)

\* use_result of the invocation on top of stk: [hp, d, result, ok]
use_result(hp, d, stk, node) ==
    IF VIsInt(stk[Len(stk)].num)
    THEN Added(add(hp, d, stk[Len(stk)].num, node), stk, node)
    ELSE Added([hp |-> hp, d |-> d, ok |-> TRUE], stk, node)

\* use_result(new operator_node_t(...)) 
UseBuilt(n, d, stk) == use_result(n.hp, d, stk, n.h)

\* result = ...: won is the strategy that gave the invocation its first result
Won(f, result, pass) ==
    [f EXCEPT !.result = result,
              !.won = IF f.won = "" /\ result # 0 THEN pass ELSE f.won]

\* the first line of a pass: for (let i = 0; ...) over this.getKeys()
EnterPass(f, pc, sk, d) ==
    [f EXCEPT !.pc = pc, !.i = 0, !.key_list = getKeys(sk, d), !.proofs = <<>>]

NextKey(f, pc) == [f EXCEPT !.pc = pc, !.i = f.i + 1, !.proofs = <<>>]

Call(f, num) == Append(SetTop(f), Frame(num, Top.max_depth - 1))

NoCall ==
    [target |-> V(0), max_depth |-> 0, known |-> TRUE, kind |-> "none", str |-> NoStr,
     heard |-> NoStr, node |-> 0]

\* callback(node.toString()): what the caller of prove was told last
\* and await warpped_callback(): the invocation is suspended on its promise
Heard(u) ==
    /\ last' = IF u.said = NoStr THEN last
               ELSE [last EXCEPT !.heard = u.said, !.node = u.node]
    /\ status' = IF u.said = NoStr THEN status ELSE "waiting"
NoAdd == [n |-> 0, key |-> V(0), value |-> 0, shorter |-> FALSE]

\* new expression_dictionary_t(base)
Constructed(c) == heap = c.hp /\ data = c.d

Init ==
    /\ base \in Bases
    /\ Constructed(Construct(<<>>, <<>>, base))
    /\ sortedKeys = <<>>
    /\ stack = <<>>
    /\ ret = NoRet
    /\ status = "idle"
    /\ calls = 0
    /\ jumps = 0
    /\ last = NoCall
    /\ added = NoAdd
    /\ parked = <<>>

\* prove(num, max_depth): proveAst's first lines
Begin(num, max_depth) ==
    /\ calls < MaxCalls
    /\ calls' = calls + 1
    /\ jumps' = 0
    /\ status' = "running"
    /\ ret' = NoRet
    /\ stack' = IF VIsInt(num) THEN <<Frame(num, max_depth)>>
                ELSE <<[Frame(num, max_depth) EXCEPT !.kind = "ast", !.pc = "numerator"],
                       Frame(V(num[1]), max_depth - 1)>>
    /\ last' = [target |-> num, max_depth |-> max_depth, known |-> Has(data, num),
                kind |-> "pending", str |-> NoStr, heard |-> NoStr, node |-> 0]
    /\ UNCHANGED <<base, heap, data, sortedKeys, added>>

\* a prove call made while no other one is in flight
prove(num, max_depth) ==
    /\ status = "idle"
    /\ Begin(num, max_depth)
    /\ UNCHANGED parked

\* the promise of the callback settles and use_result goes on
CallbackSettled ==
    /\ status = "waiting"
    /\ status' = "running"
    /\ UNCHANGED <<base, heap, data, sortedKeys, stack, ret, calls, jumps, last, added, parked>>

\* if (this.data.has(num_str)) return use_result(this.getAst(num_str))
HitDone(u) ==
    /\ heap' = u.hp
    /\ data' = u.d
    /\ ret' = IF u.ok THEN Returned(u.result) ELSE Thrown("RangeError")
    /\ stack' = Pop
    /\ Heard(u)

ExactHit ==
    /\ AtPc("enter")
    /\ Has(data, Top.num)
    /\ HitDone(use_result(heap, data, stack, getAst(data, Top.num)))
    /\ UNCHANGED <<base, sortedKeys, calls, jumps, added, parked>>

\* if (max_depth <= 0) throw
DepthExhausted ==
    /\ AtPc("enter")
    /\ ~Has(data, Top.num)
    /\ Top.max_depth <= 0
    /\ ret' = Thrown("DepthExhausted")
    /\ stack' = Pop
    /\ UNCHANGED <<base, heap, data, sortedKeys, status, calls, jumps, last, added, parked>>

\* const factors = factorize(num), up to the first sub-proof
Factored(factors) ==
    IF VAbs(factors[1]) # V(1) /\ VAbs(factors[2]) # V(1)
    THEN /\ stack' = Call([Top EXCEPT !.pc = "factor", !.factors = factors], factors[1])
         /\ UNCHANGED sortedKeys
    ELSE /\ stack' = SetTop(EnterPass(Top, "div", sortedKeys, data))
         /\ sortedKeys' = getKeys(sortedKeys, data)

Factorize ==
    /\ AtPc("enter")
    /\ ~Has(data, Top.num)
    /\ Top.max_depth > 0
    /\ Factored(factorize(Top.num))
    /\ UNCHANGED <<base, heap, data, ret, status, calls, jumps, last, added, parked>>

\* let key_list = this.getKeys(), with what the factorization left
ToDivision(u) ==
    /\ heap' = u.hp
    /\ data' = u.d
    /\ sortedKeys' = getKeys(sortedKeys, u.d)
    /\ stack' = SetTop(EnterPass(Won(Top, u.result, "factor"), "div", sortedKeys, u.d))
    /\ Heard(u)

\* the factor proofs coming back, then use_result of their product
FactorizeResume ==
    /\ Awaited("factor")
    /\ ret' = NoRet
    /\ IF ret.kind = "value" /\ Top.proofs = <<>>
       THEN /\ stack' = Call([Top EXCEPT !.proofs = <<ret.h>>], Top.factors[2])
            /\ UNCHANGED <<heap, data, sortedKeys, last, status>>
       ELSE IF ret.kind = "error"
       THEN ToDivision(Silent(heap, data, Top.result, TRUE))
       ELSE ToDivision(UseBuilt(operator_node_t(heap, "*", Top.proofs \o <<ret.h>>),
                                data, stack))
    /\ UNCHANGED <<base, calls, jumps, added, parked>>

\* key_list[i] of the running pass (i is a JS index)
Key == Top.key_list[Top.i + 1]

\* division pass, one key: lines 148-152
DivisionPass ==
    /\ AtPc("div")
    /\ stack' = SetTop(
           IF Top.i >= Len(Top.key_list) THEN [Top EXCEPT !.pc = "mul"]
           ELSE IF Top.i < 0 THEN NextKey(Top, "div")
           ELSE IF VIsZero(Key) THEN NextKey(Top, "div")
           ELSE [Top EXCEPT !.pc = "divloop", !.product = Top.num, !.times = 0])
    /\ UNCHANGED <<base, heap, data, sortedKeys, ret, status, calls, jumps, last, added, parked>>

\* one round of while (true), lines 153-160, and the first sub-proof after it
Divided(new_product) ==
    IF VLess(new_product, Top.product) /\ VIsInt(new_product)
    THEN /\ Top.times < MaxTimes
         /\ stack' = SetTop([Top EXCEPT !.product = new_product, !.times = Top.times + 1])
    ELSE IF Top.times > 0
    THEN stack' = Call([Top EXCEPT !.pc = "div_await", !.proofs = <<>>], V(Top.times))
    ELSE stack' = SetTop(NextKey(Top, "div"))

RepeatedDivision ==
    /\ AtPc("divloop")
    /\ Divided(VDiv(Top.product, Key))
    /\ UNCHANGED <<base, heap, data, sortedKeys, ret, status, calls, jumps, last, added, parked>>

\* after use_result in the division and modulo passes: the random choice,
\* or the next key when use_result threw
Used(u, pass, choice) ==
    /\ heap' = u.hp
    /\ data' = u.d
    /\ stack' = SetTop(IF u.ok THEN [Won(Top, u.result, pass) EXCEPT !.pc = choice]
                       ELSE NextKey(Won(Top, u.result, pass), pass))
    /\ Heard(u)

\* times > 1 ? new operator_node_t('^', [key, times_proof]) : key
KeyPower(hp, key, times, times_proof) ==
    IF times > 1 THEN operator_node_t(hp, "^", <<key, times_proof>>)
    ELSE [hp |-> hp, h |-> key]

Times(p, proof) == operator_node_t(p.hp, "*", <<p.h, proof>>)

\* times_proof and product_proof coming back, then use_result: lines 163-168
DivisionResume ==
    /\ Awaited("div_await")
    /\ ret' = NoRet
    /\ IF ret.kind = "error"
       THEN /\ stack' = SetTop(NextKey(Top, "div"))
            /\ UNCHANGED <<heap, data, last, status>>
       ELSE IF Top.proofs = <<>>
       THEN /\ stack' = Call([Top EXCEPT !.proofs = <<ret.h>>], Top.product)
            /\ UNCHANGED <<heap, data, last, status>>
       ELSE Used(UseBuilt(Times(KeyPower(heap, getAst(data, Key), Top.times, Top.proofs[1]),
                                ret.h),
                          data, stack),
                 "div", "div_random")
    /\ UNCHANGED <<base, sortedKeys, calls, jumps, added, parked>>

\* if (Math.random() > 2/3) break
Break ==
    /\ Running /\ ret.kind = "none"
    /\ Top.pc \in {"div_random", "mod_random"}
    /\ stack' = SetTop([Top EXCEPT !.pc = IF Top.pc = "div_random" THEN "mul" ELSE "end_mod"])
    /\ UNCHANGED <<base, heap, data, sortedKeys, ret, status, calls, jumps, last, added, parked>>

\* else i -= Math.floor(Math.random() * (key_list.length - i)), then i++
Continue(back) ==
    /\ Running /\ ret.kind = "none"
    /\ Top.pc \in {"div_random", "mod_random"}
    /\ back \in 0..(Len(Top.key_list) - Top.i - 1)
    /\ back > 0 => jumps < Jumps(base)
    /\ jumps' = IF back > 0 THEN jumps + 1 ELSE jumps
    /\ stack' = SetTop([Top EXCEPT !.pc = IF Top.pc = "div_random" THEN "div" ELSE "mod",
                                   !.i = Top.i - back + 1, !.proofs = <<>>])
    /\ UNCHANGED <<base, heap, data, sortedKeys, ret, status, calls, last, added, parked>>

\* one key of the multiplication pass: [hp, d, result]
MulUsed(u, st) ==
    [hp |-> u.hp, d |-> u.d, result |-> u.result,
     said |-> IF u.said = NoStr THEN st.said ELSE u.said,
     node |-> IF u.said = NoStr THEN st.node ELSE u.node]

MulKey(st, stk, key) ==
    IF VIsZero(key) \/ ~Has(st.d, VMul(stk[Len(stk)].num, key)) THEN st
    ELSE MulUsed(UseBuilt(operator_node_t(st.hp, "/",
                              <<getAst(st.d, VMul(stk[Len(stk)].num, key)),
                                getAst(st.d, key)>>),
                          st.d, [stk EXCEPT ![Len(stk)].result = st.result]),
                 st)

RECURSIVE MulLoop(_, _, _, _)
MulLoop(st, stk, keys, j) ==
    IF j > Len(keys) THEN st
    ELSE MulLoop(MulKey(st, stk, keys[j]), stk, keys, j + 1)

MulDone(m, keys) ==
    /\ heap' = m.hp
    /\ data' = m.d
    /\ sortedKeys' = getKeys(keys, m.d)
    /\ stack' = SetTop(EnterPass(Won(Top, m.result, "mul"), "mod", keys, m.d))
    /\ Heard(m)

MulOver(keys) ==
    MulDone(MulLoop([hp |-> heap, d |-> data, result |-> Top.result,
                     said |-> NoStr, node |-> 0], stack, keys, 1), keys)

\* the whole multiplication pass, lines 173-179, and key_list = this.getKeys()
MultiplicationPass ==
    /\ AtPc("mul")
    /\ MulOver(getKeys(sortedKeys, data))
    /\ UNCHANGED <<base, ret, calls, jumps, added, parked>>

\* modulo pass, one key: lines 181-187
ModuloPass ==
    /\ AtPc("mod")
    /\ IF Top.i >= Len(Top.key_list) THEN stack' = SetTop([Top EXCEPT !.pc = "end_mod"])
       ELSE IF Top.i < 0 THEN stack' = SetTop(NextKey(Top, "mod"))
       ELSE IF VIsZero(Key) THEN stack' = SetTop(NextKey(Top, "mod"))
       ELSE IF VLess(VAbs(VMod(Top.num, Key)), VAbs(Top.num))
       THEN stack' = Call([Top EXCEPT !.pc = "mod_await", !.proofs = <<>>],
                          VFloor(VDiv(Top.num, Key)))
       ELSE stack' = SetTop(NextKey(Top, "mod"))
    /\ UNCHANGED <<base, heap, data, sortedKeys, ret, status, calls, jumps, last, added, parked>>

Plus(p, proof) == operator_node_t(p.hp, "+", <<p.h, proof>>)

\* quotient_proof and mod_result_proof coming back, then use_result: lines 187-192
ModuloResume ==
    /\ Awaited("mod_await")
    /\ ret' = NoRet
    /\ IF ret.kind = "error"
       THEN /\ stack' = SetTop(NextKey(Top, "mod"))
            /\ UNCHANGED <<heap, data, last, status>>
       ELSE IF Top.proofs = <<>>
       THEN /\ stack' = Call([Top EXCEPT !.proofs = <<ret.h>>], VMod(Top.num, Key))
            /\ UNCHANGED <<heap, data, last, status>>
       ELSE Used(UseBuilt(Plus(operator_node_t(heap, "*",
                                   <<getAst(data, Key), Top.proofs[1]>>),
                               ret.h),
                          data, stack),
                 "mod", "mod_random")
    /\ UNCHANGED <<base, sortedKeys, calls, jumps, added, parked>>

\* if (result) return result, lines 197, 208 and 221
ReturnResult ==
    /\ Running /\ ret.kind = "none" /\ Top.kind = "base"
    /\ Top.pc \in {"end_mod", "end_sub", "end_add"}
    /\ Top.result # 0
    /\ ret' = Returned(Top.result)
    /\ stack' = Pop
    /\ UNCHANGED <<base, heap, data, sortedKeys, status, calls, jumps, last, added, parked>>

\* no result yet: on to the subtraction pass, then to the addition pass
NextStrategy ==
    /\ Running /\ ret.kind = "none" /\ Top.kind = "base"
    /\ Top.pc \in {"end_mod", "end_sub"}
    /\ Top.result = 0
    /\ sortedKeys' = getKeys(sortedKeys, data)
    /\ stack' = SetTop(EnterPass(Top, IF Top.pc = "end_mod" THEN "sub" ELSE "add",
                                 sortedKeys, data))
    /\ UNCHANGED <<base, heap, data, ret, status, calls, jumps, last, added, parked>>

\* throw new Error(...), line 222
ProofNotFound ==
    /\ AtPc("end_add")
    /\ Top.result = 0
    /\ ret' = Thrown("ProofNotFound")
    /\ stack' = Pop
    /\ UNCHANGED <<base, heap, data, sortedKeys, status, calls, jumps, last, added, parked>>

\* subtraction pass, one key: lines 198-201
SubtractionPass ==
    /\ AtPc("sub")
    /\ IF Top.i >= Len(Top.key_list) THEN stack' = SetTop([Top EXCEPT !.pc = "end_sub"])
       ELSE IF VLess(VAbs(VSub(Top.num, Key)), VAbs(Top.num))
       THEN stack' = Call([Top EXCEPT !.pc = "sub_await"], VSub(Top.num, Key))
       ELSE stack' = SetTop(NextKey(Top, "sub"))
    /\ UNCHANGED <<base, heap, data, sortedKeys, ret, status, calls, jumps, last, added, parked>>

\* after use_result in the subtraction and addition passes: the next key
UsedNext(u, pass) ==
    /\ heap' = u.hp
    /\ data' = u.d
    /\ stack' = SetTop(NextKey(Won(Top, u.result, pass), pass))
    /\ Heard(u)

\* diff_proof coming back, then use_result: lines 201-205
SubtractionResume ==
    /\ Awaited("sub_await")
    /\ ret' = NoRet
    /\ IF ret.kind = "error"
       THEN /\ stack' = SetTop(NextKey(Top, "sub"))
            /\ UNCHANGED <<heap, data, last, status>>
       ELSE UsedNext(UseBuilt(operator_node_t(heap, "+", <<getAst(data, Key), ret.h>>),
                              data, stack),
                     "sub")
    /\ UNCHANGED <<base, sortedKeys, calls, jumps, added, parked>>

\* addition pass, one key: lines 209-213
AdditionPass ==
    /\ AtPc("add")
    /\ IF Top.i >= Len(Top.key_list) THEN stack' = SetTop([Top EXCEPT !.pc = "end_add"])
       ELSE IF \/ Has(data, VAdd(Top.num, Key))
               \/ VLess(VAbs(VAdd(Top.num, Key)), VAbs(Top.num))
       THEN stack' = Call([Top EXCEPT !.pc = "add_await"], VAdd(Top.num, Key))
       ELSE stack' = SetTop(NextKey(Top, "add"))
    /\ UNCHANGED <<base, heap, data, sortedKeys, ret, status, calls, jumps, last, added, parked>>

\* sum_proof coming back, then use_result: lines 213-217
AdditionResume ==
    /\ Awaited("add_await")
    /\ ret' = NoRet
    /\ IF ret.kind = "error"
       THEN /\ stack' = SetTop(NextKey(Top, "add"))
            /\ UNCHANGED <<heap, data, last, status>>
       ELSE UsedNext(UseBuilt(operator_node_t(heap, "-", <<ret.h, getAst(data, Key)>>),
                              data, stack),
                     "add")
    /\ UNCHANGED <<base, sortedKeys, calls, jumps, added, parked>>

\* proveAst's own use_result: the node built is dropped, result is what
\* the dictionary holds for num_str
AstDone(c, result) ==
    /\ heap' = c.hp
    /\ ret' = IF c.ok THEN Returned(result) ELSE Thrown("RangeError")
    /\ stack' = Pop
    /\ Heard(c)

AstBuilt(n, result) ==
    AstDone(Notify(n.hp, SetTop([Top EXCEPT !.result = result]), Len(stack)), result)

\* proveAst for a non-integer num: lines 112-116
proveAstResume ==
    /\ Running /\ ret.kind # "none" /\ Top.kind = "ast"
    /\ IF ret.kind = "error"
       THEN /\ stack' = Pop
            /\ UNCHANGED <<heap, ret, last, status>>
       ELSE IF Top.pc = "numerator"
       THEN /\ stack' = Call([Top EXCEPT !.pc = "denominator", !.proofs = <<ret.h>>],
                             V(Top.num[2]))
            /\ ret' = NoRet
            /\ UNCHANGED <<heap, last, status>>
       ELSE AstBuilt(operator_node_t(heap, "/", <<Top.proofs[1], ret.h>>),
                     getAst(data, Top.num))
    /\ UNCHANGED <<base, data, sortedKeys, calls, jumps, added, parked>>

\* prove's .then((node) => node.toString())
Resolved(r) ==
    /\ heap' = r.hp
    /\ last' = IF r.ok THEN [last EXCEPT !.kind = "string", !.str = r.s]
               ELSE [last EXCEPT !.kind = "RangeError"]

\* the promise of prove settles
Finish ==
    /\ status = "running" /\ stack = <<>> /\ ret.kind # "none"
    /\ status' = "idle"
    /\ ret' = NoRet
    /\ IF ret.kind = "error"
       THEN /\ last' = [last EXCEPT !.kind = ret.err]
            /\ UNCHANGED heap
       ELSE IF ret.h = 0
       THEN /\ last' = [last EXCEPT !.kind = "TypeError"]
            /\ UNCHANGED heap
       ELSE Resolved(Render(heap, ret.h))
    /\ UNCHANGED <<base, data, sortedKeys, stack, calls, jumps, added, parked>>

Next ==
    \/ \E num \in Targets(base, calls + 1), max_depth \in Depths : prove(num, max_depth)
    \/ ExactHit
    \/ DepthExhausted
    \/ Factorize
    \/ FactorizeResume
    \/ DivisionPass
    \/ RepeatedDivision
    \/ DivisionResume
    \/ Break
    \/ \E back \in 0..MaxBack : Continue(back)
    \/ MultiplicationPass
    \/ ModuloPass
    \/ ModuloResume
    \/ ReturnResult
    \/ NextStrategy
    \/ ProofNotFound
    \/ SubtractionPass
    \/ SubtractionResume
    \/ AdditionPass
    \/ AdditionResume
    \/ proveAstResume
    \/ CallbackSettled
    \/ Finish

Spec == Init /\ [][Next]_vars

----------------------------------------------------------------------------
(* The page of index.mjs: prove() passes a callback that awaits a timer,    *)
(* so a search waiting for its callback is suspended across tasks of the    *)
(* event loop, and the input events of the page are handled meanwhile.      *)

MaxParked == 1
\* the depth the page's searches are explored to (the page passes Infinity)
PageDepth == 1

\* what belongs to one prove call
Context == [stack |-> stack, ret |-> ret, status |-> status, jumps |-> jumps, last |-> last]

\* targetNumInput's 'input' event while a callback's timer is pending:
\* prove() starts a search on the same dictionary
InputEvent(num) ==
    /\ status = "waiting"
    /\ Len(parked) < MaxParked
    /\ Begin(num, PageDepth)
    /\ parked' = Append(parked, Context)

Restored(c) ==
    /\ stack' = c.stack
    /\ ret' = c.ret
    /\ status' = c.status
    /\ jumps' = c.jumps
    /\ last' = c.last

\* the timer of the oldest suspended search fires once the running one is
\* itself waiting for a timer, or is over
TimerFires ==
    /\ parked # <<>>
    /\ status \in {"idle", "waiting"}
    /\ Restored(Head(parked))
    /\ parked' = IF status = "waiting" THEN Append(Tail(parked), Context) ELSE Tail(parked)
    /\ UNCHANGED <<base, heap, data, sortedKeys, calls, added>>

InitPage == Init /\ base = <<"2">>

\* the targets typed into the page: the numbers the dictionary holds, for
\* which every search ends at its first line and reports its result
NextPage ==
    \/ \E num \in DOMAIN data.at : prove(num, PageDepth)
    \/ \E num \in DOMAIN data.at : InputEvent(num)
    \/ ExactHit
    \/ CallbackSettled
    \/ TimerFires
    \/ Finish

SpecPage == InitPage /\ [][NextPage]_vars

----------------------------------------------------------------------------
(* Two queries on one dictionary: the second prove call is made while the   *)
(* first is suspended on its callback, as when dict(1) is not awaited       *)

\* the steps of the search in flight, the scans never jumping backward
Search ==
    \/ ExactHit
    \/ DepthExhausted
    \/ Factorize
    \/ FactorizeResume
    \/ DivisionPass
    \/ RepeatedDivision
    \/ DivisionResume
    \/ Break
    \/ Continue(0)
    \/ MultiplicationPass
    \/ ModuloPass
    \/ ModuloResume
    \/ ReturnResult
    \/ NextStrategy
    \/ ProofNotFound
    \/ SubtractionPass
    \/ SubtractionResume
    \/ AdditionPass
    \/ AdditionResume
    \/ proveAstResume
    \/ CallbackSettled
    \/ Finish

\* the first call, not awaited
FirstQuery(num, max_depth) == calls = 0 /\ prove(num, max_depth)

\* the second call, made at an await of the first
SecondQuery(num, max_depth) ==
    /\ calls = 1
    /\ status = "waiting"
    /\ parked = <<>>
    /\ Begin(num, max_depth)
    /\ parked' = <<Context>>

\* the other query goes on from the await it had reached, once the one
\* running is over or is itself at an await
Resume ==
    /\ calls = 2
    /\ calls' = calls + 1
    /\ parked # <<>>
    /\ status \in {"idle", "waiting"}
    /\ Restored(Head(parked))
    /\ parked' = IF status = "waiting" THEN Append(Tail(parked), Context) ELSE Tail(parked)
    /\ UNCHANGED <<base, heap, data, sortedKeys, added>>

NextQueries ==
    \/ \E num \in Targets(base, 1), max_depth \in Depths : FirstQuery(num, max_depth)
    \/ \E num \in Targets(base, 2), max_depth \in Depths : SecondQuery(num, max_depth)
    \/ Search
    \/ Resume

SpecQueries == InitPage /\ [][NextQueries]_vars

----------------------------------------------------------------------------
(* Two instances of one base: the second is given the mapping geneCache     *)
(* holds, so the entries generateRecursive made are the same nodes in both  *)

\* the first instance of each base as its constructor left it, with the
\* generator's cache
FirstBuilt == [b \in Bases |-> Construct(<<>>, <<>>, b)]

\* the second instance of the same base: generateRecursive returns the
\* mapping the cache holds, and its entries overwrite those of self_dict
Shared == FirstBuilt[base].gc[base]

\* the targets asked of the first instance: the shared keys and two others
SharedTargets == DOMAIN Shared.at \cup {V(4), V(100)}

InitShared == Init /\ base = <<"2", "1">>

NextShared ==
    \/ \E num \in SharedTargets, max_depth \in Depths : prove(num, max_depth)
    \/ Search

SpecShared == InitShared /\ [][NextShared]_vars

----------------------------------------------------------------------------
(* factorize on its own: one invocation of #baseAstProve per integer, the   *)
(* factors kept in its locals as line 140 does.                             *)

MaxNum == 60

InitFactorize ==
    /\ base = <<"2">>
    /\ heap = <<>>
    /\ data = EmptyDict
    /\ sortedKeys = <<>>
    /\ \E n \in -MaxNum..MaxNum : stack = <<Frame(V(n), 1)>>
    /\ ret = NoRet
    /\ status = "running"
    /\ calls = 0
    /\ jumps = 0
    /\ last = NoCall
    /\ added = NoAdd
    /\ parked = <<>>

\* const factors = factorize(num)
Factors ==
    /\ AtPc("enter")
    /\ stack' = SetTop([Top EXCEPT !.pc = "factor", !.factors = factorize(Top.num)])
    /\ UNCHANGED <<base, heap, data, sortedKeys, ret, status, calls, jumps, last, added, parked>>

SpecFactorize == InitFactorize /\ [][Factors]_vars

----------------------------------------------------------------------------
(* The node constructors on their own: operator nodes are built over the    *)
(* nodes that exist, in any order.                                          *)

MaxNodes == 4
Arities == [operator \in {"u-", "*", "/", "+", "-"} |-> IF operator = "u-" THEN 1 ELSE 2]

\* the latest construction: its arguments and the node it gave
NoNode == [operator |-> "", children |-> <<>>, node |-> 0]

InitNode ==
    /\ base = <<"2">>
    /\ heap = number_node_t(<<>>, <<"2">>).hp
    /\ data = EmptyDict
    /\ sortedKeys = <<>>
    /\ stack = <<>>
    /\ ret = NoRet
    /\ status = "idle"
    /\ calls = 0
    /\ jumps = 0
    /\ last = NoCall
    /\ added = NoNode
    /\ parked = <<>>

Made(n, operator, children) ==
    /\ heap' = n.hp
    /\ added' = [operator |-> operator, children |-> children, node |-> n.h]

\* new operator_node_t(operator, children)
New(operator, children) ==
    /\ Len(heap) < MaxNodes
    /\ Made(operator_node_t(heap, operator, children), operator, children)
    /\ UNCHANGED <<base, data, sortedKeys, stack, ret, status, calls, jumps, last, parked>>

NextNode ==
    \E operator \in DOMAIN Arities :
        \E children \in [1..Arities[operator] -> 1..Len(heap)] : New(operator, children)

SpecNode == InitNode /\ [][NextNode]_vars

----------------------------------------------------------------------------
(* Replacement on its own: handles built by the constructors, then replaced *)

MaxReplaces == 2

\* the nodes of the expressions below the nodes ts
RECURSIVE Under(_, _)
Under(hp, ts) ==
    LET more == ts \cup UNION {{Self(hp, hp[t].children[j]) : j \in DOMAIN hp[t].children} : t \in ts}
    IN  IF more = ts THEN ts ELSE Under(hp, more)

\* neither expression is an operand of the other, as for two entries of a key
Apart(hp, old, new) ==
    \/ Self(hp, old) = Self(hp, new)
    \/ /\ Self(hp, new) \notin Under(hp, {Self(hp, old)})
       /\ Self(hp, old) \notin Under(hp, {Self(hp, new)})

\* old.replace(new), old and new any two handles
Replace(old, new) ==
    /\ calls < MaxReplaces
    /\ calls' = calls + 1
    /\ Apart(heap, old, new)
    /\ heap' = replace(heap, old, new)
    /\ added' = [operator |-> "replace", children |-> <<old, new>>, node |-> 0]
    /\ UNCHANGED <<base, data, sortedKeys, stack, ret, status, jumps, last, parked>>

NextReplace ==
    \/ \E children \in [1..1 -> 1..Len(heap)] : New("u-", children)
    \/ \E children \in [1..2 -> 1..Len(heap)] : New("-", children)
    \/ \E old \in 1..Len(heap), new \in 1..Len(heap) : Replace(old, new)

\* two literals to begin with
InitReplace ==
    /\ base = <<"2">>
    /\ heap = number_node_t(number_node_t(<<>>, <<"2">>).hp, <<"2">>).hp
    /\ data = EmptyDict
    /\ sortedKeys = <<>>
    /\ stack = <<>>
    /\ ret = NoRet
    /\ status = "idle"
    /\ calls = 0
    /\ jumps = 0
    /\ last = NoCall
    /\ added = NoNode
    /\ parked = <<>>

SpecReplace == InitReplace /\ [][NextReplace]_vars

----------------------------------------------------------------------------
(* Rendering on its own: nodes built by the constructors, then rendered     *)

MaxShown == 2
MaxRendered == 3
Enclosing == {"", "u-", "^", "*", "/", "+", "-"}

renderedAs(r, h, parent_operator) ==
    /\ heap' = r.hp
    /\ added' = [operator |-> "toString", children |-> <<h>>, node |-> h,
                 parent_operator |-> parent_operator, str |-> r.s]

\* h.toString(parent_operator)
toStringCalled(h, parent_operator) ==
    /\ calls < MaxShown
    /\ calls' = calls + 1
    /\ renderedAs(toString(heap, h, parent_operator, {}), h, parent_operator)
    /\ UNCHANGED <<base, data, sortedKeys, stack, ret, status, jumps, last, parked>>

NextRender ==
    \/ Len(heap) < MaxRendered /\ NextNode
    \/ \E children \in [1..2 -> 1..Len(heap)] : Len(heap) < MaxRendered /\ New("^", children)
    \/ \E h \in 1..Len(heap), parent_operator \in Enclosing : toStringCalled(h, parent_operator)

SpecRender == InitNode /\ [][NextRender]_vars

----------------------------------------------------------------------------
(* What a construction or a merge called on its own leaves behind *)

\* the dictionary is returned, or the error escapes
Outcome(c) ==
    IF c.ok THEN heap' = c.hp /\ data' = c.d /\ status' = "idle"
    ELSE status' = "failed" /\ UNCHANGED <<heap, data>>

----------------------------------------------------------------------------
(* mergeDictionary on its own: the dictionaries of two digit strings, as    *)
(* generateRecursive hands them to it, merged under a bound.                *)

MaxLen == 3
MergeStrings == {<<"0">>, <<"1">>, <<"2">>, <<"3">>, <<"1", "2">>}

\* the arguments of the merge, and the number of nodes before it
Operands(a, b, max_len) ==
    [dict_1 |-> a.d, dict_2 |-> b.d, max_len |-> max_len, size |-> Len(b.hp)]

Given(a, b, max_len) ==
    /\ a.ok /\ b.ok
    /\ heap = b.hp
    /\ added = Operands(a, b, max_len)

Second(a, n, max_len) == Given(a, generateRecursive(a.hp, a.gc, n, max_len), max_len)

InitMerge ==
    /\ base = <<>>
    /\ \E n1 \in MergeStrings, n2 \in MergeStrings, max_len \in 1..MaxLen :
           Second(generateRecursive(<<>>, <<>>, n1, max_len), n2, max_len)
    /\ data = EmptyDict
    /\ sortedKeys = <<>>
    /\ stack = <<>>
    /\ ret = NoRet
    /\ status = "new"
    /\ calls = 0
    /\ jumps = 0
    /\ last = NoCall
    /\ parked = <<>>

\* result = mergeDictionary(dict_1, dict_2, max_value), or its error
Merge ==
    /\ status = "new"
    /\ Outcome(mergeDictionary(heap, added.dict_1, added.dict_2, added.max_len))
    /\ UNCHANGED <<base, sortedKeys, stack, ret, calls, jumps, last, added, parked>>

SpecMerge == InitMerge /\ [][Merge]_vars

----------------------------------------------------------------------------
(* The generator on its own: generateRecursive from an empty geneCache      *)

GenStrings ==
    {<<a, b>> : a \in {"1", "2", "3"}, b \in {"0", "1", "2", "3"}}
        \cup {<<a, b, c>> : a \in {"1", "2"}, b \in {"1", "2"}, c \in {"1", "2"}}

InitGen ==
    /\ base \in GenStrings
    /\ heap = <<>>
    /\ data = EmptyDict
    /\ sortedKeys = <<>>
    /\ stack = <<>>
    /\ ret = NoRet
    /\ status = "new"
    /\ calls = 0
    /\ jumps = 0
    /\ last = NoCall
    /\ added \in [max_len : 1..MaxLen]
    /\ parked = <<>>

Generate ==
    /\ status = "new"
    /\ Outcome(generateRecursive(<<>>, <<>>, base, added.max_len))
    /\ UNCHANGED <<base, sortedKeys, stack, ret, calls, jumps, last, added, parked>>

SpecGen == InitGen /\ [][Generate]_vars

----------------------------------------------------------------------------
(* The generator called again and again: geneCache (kept in parked, a       *)
(* function from digit strings to mappings) outlives each call              *)

MaxGen == 2
MemoStrings == {<<"2">>, <<"3">>, <<"2", "3">>, <<"3", "2">>, <<"1", "3">>, <<"2", "3", "1">>}

InitMemo ==
    /\ base = <<"2">>
    /\ heap = <<>>
    /\ data = EmptyDict
    /\ sortedKeys = <<>>
    /\ stack = <<>>
    /\ ret = NoRet
    /\ status = "new"
    /\ calls = 0
    /\ jumps = 0
    /\ last = NoCall
    /\ added = [max_len |-> 1]
    /\ parked = <<>>

\* what the call leaves: the mapping returned, and the cache
Generated(r) ==
    /\ heap' = r.hp
    /\ data' = r.d
    /\ parked' = r.gc
    /\ status' = IF r.ok THEN "idle" ELSE "failed"

\* generateRecursive(n, max_value), max_value being max_len digits long
generate(n, max_len) ==
    /\ calls < MaxGen
    /\ status # "failed"
    /\ calls' = calls + 1
    /\ base' = n
    /\ added' = [max_len |-> max_len]
    /\ Generated(generateRecursive(heap, parked, n, max_len))
    /\ UNCHANGED <<sortedKeys, stack, ret, jumps, last>>

NextMemo == \E n \in MemoStrings, max_len \in 1..MaxLen : generate(n, max_len)

SpecMemo == InitMemo /\ [][NextMemo]_vars

----------------------------------------------------------------------------
(* Construction on its own: new expression_dictionary_t(base) for a base    *)
(* digit string, then prove of the base literal and of its negation.        *)

BaseStrings == {<<"1">>, <<"2">>, <<"1", "2">>, <<"2", "2">>, <<"1", "0">>, <<"2", "0">>}

InitBase ==
    /\ base \in BaseStrings
    /\ heap = <<>>
    /\ data = EmptyDict
    /\ sortedKeys = <<>>
    /\ stack = <<>>
    /\ ret = NoRet
    /\ status = "new"
    /\ calls = 0
    /\ jumps = 0
    /\ last = NoCall
    /\ added = NoAdd
    /\ parked = <<>>

\* dictionary = expression_dictionary_t(baseNumStr)
NewDictionary ==
    /\ status = "new"
    /\ Outcome(Construct(<<>>, <<>>, base))
    /\ UNCHANGED <<base, sortedKeys, stack, ret, calls, jumps, last, added, parked>>

\* prove(b) and prove(-b)
ProveLiteral ==
    \E num \in {V(DigitsToInt(base)), V(-DigitsToInt(base))}, max_depth \in Depths :
        prove(num, max_depth)

NextBase == NewDictionary \/ ProveLiteral \/ ExactHit \/ CallbackSettled \/ Finish

SpecBase == InitBase /\ [][NextBase]_vars

----------------------------------------------------------------------------
(* The dictionary of dict_ast.mjs on its own: nodes are built over the      *)
(* entries, added under their value and rendered, in any order, as the      *)
(* generator and the search do.                                             *)

MaxAdds == 4
Operators == {"+"}

\* the nodes at hand: 2, 2+2, (2+2)/(2+2), 2/2 and 2-2/2
Leaf == number_node_t(<<>>, <<"2">>)
Sum == operator_node_t(Leaf.hp, "+", <<Leaf.h, Leaf.h>>)
Long == operator_node_t(Sum.hp, "/", <<Sum.h, Sum.h>>)
Short == operator_node_t(Long.hp, "/", <<Leaf.h, Leaf.h>>)
Middle == operator_node_t(Short.hp, "-", <<Leaf.h, Short.h>>)
Candidates == {Sum.h, Long.h, Short.h, Middle.h}

InitAst ==
    /\ base = <<"2">>
    /\ heap = Middle.hp
    /\ data = EmptyDict
    /\ sortedKeys = <<>>
    /\ stack = <<>>
    /\ ret = NoRet
    /\ status = "idle"
    /\ calls = 0
    /\ jumps = 0
    /\ last = NoCall
    /\ added = NoAdd
    /\ parked = <<>>

\* dict.has(key) && dict.get(key).toString().length > value.toString().length
WillReplace(a, hp, value) == a.ok /\ Len(a.s) > Len(Render(hp, value).s)

IsShorter(hp, d, key, value) ==
    Has(d, key) /\ WillReplace(Render(hp, d.at[key]), hp, value)

\* add(dict, key, value) with key the value of the node
Insert(hp, key, value) ==
    /\ added.n < MaxAdds
    /\ key # Bad /\ VIsInt(key)
    /\ add(hp, data, key, value).ok
    /\ heap' = add(hp, data, key, value).hp
    /\ data' = add(hp, data, key, value).d
    /\ added' = [n |-> added.n + 1, key |-> key, value |-> value,
                 shorter |-> IsShorter(hp, data, key, value)]
    /\ UNCHANGED <<base, sortedKeys, stack, ret, status, calls, jumps, last, parked>>

\* add(dict, key, node) of a node at hand
Add(value) == Insert(heap, Evaluate(heap, value), value)

Built(n) == Insert(n.hp, Evaluate(n.hp, n.h), n.h)

\* add(dict, key, new operator_node_t(operator, [dict.get(k1), dict.get(k2)]))
Combine(operator, k1, k2) == Built(operator_node_t(heap, operator, <<data.at[k1], data.at[k2]>>))

\* dict.get(key).toString()
Show(key) ==
    /\ Render(heap, data.at[key]).ok
    /\ heap' = Render(heap, data.at[key]).hp
    /\ UNCHANGED <<base, data, sortedKeys, stack, ret, status, calls, jumps, last, added, parked>>

NextAst ==
    \/ \E value \in Candidates : Add(value)
    \/ \E operator \in Operators, k1 \in DOMAIN data.at, k2 \in DOMAIN data.at :
           Combine(operator, k1, k2)
    \/ \E key \in DOMAIN data.at : Show(key)

SpecAst == InitAst /\ [][NextAst]_vars

----------------------------------------------------------------------------
(* The contract of prove and of the dictionary                              *)

\* the latest prove call has settled
Settled == last.kind \notin {"none", "pending"}

\* C1: a prove call for an integer target that returns a string returns one
\* whose value, read with the standard precedence, is exactly the target.
ProofCorrectness ==
    (last.kind = "string" /\ VIsInt(last.target)) => EvalString(last.str) = last.target

\* C2: in every reachable state every dictionary entry evaluates to its key.
DictionarySoundness == \A k \in DOMAIN data.at : Evaluate(heap, data.at[k]) = k

\* the handles reachable from the dictionary entries through the children
RECURSIVE Descendants(_, _)
Descendants(hp, hs) ==
    LET more == hs \cup UNION {{ChildrenOf(hp, h)[j] : j \in 1..Len(ChildrenOf(hp, h))} : h \in hs}
    IN  IF more = hs THEN hs ELSE Descendants(hp, more)

Reachable == Descendants(heap, {data.at[k] : k \in DOMAIN data.at})

\* C3: the rendered string of every node reachable from the dictionary,
\* parsed and evaluated with the standard precedence and associativity,
\* gives the value the node evaluates to.
RoundTrip ==
    \A h \in Reachable :
        LET r == Render(heap, h)
        IN  r.ok => EvalString(r.s) = Evaluate(heap, h)

\* C4: in every reachable state the negation of every key is a key.
NegationClosure == \A k \in DOMAIN data.at : Has(data, VNeg(k))

\* a prove call for an integer that was no key returned, and the integer and
\* its negation are keys now
NegationAdded ==
    /\ last.kind = "string" /\ ~last.known /\ VIsInt(last.target)
    /\ Has(data, last.target) /\ Has(data, VNeg(last.target))

\* C5: an insertion whose rendering is strictly shorter than the current
\* entry's makes the handle the dictionary holds for the key resolve to the
\* inserted node.
ReplacedInPlace ==
    added.shorter => Self(heap, data.at[added.key]) = Self(heap, added.value)

\* the rendering of the node t with every cache empty
Uncached(hp) == [i \in 1..Len(hp) |-> [hp[i] EXCEPT !.cache = EmptyCache]]
Fresh(hp, t) == toStringImpl(Uncached(hp), t, "", {t})

\* parentheses apart: they depend on where the rendering was first asked for
Bare(s) == SelectSeq(s, LAMBDA c : c \notin {"(", ")"})

\* the node t keeps a rendering that is no longer the one of its subtree
Stale(hp, t) ==
    /\ hp[t].cache.to_string # NoStr
    /\ Fresh(hp, t).ok
    /\ Bare(Fresh(hp, t).s) # Bare(hp[t].cache.to_string)

\* C6: no node reachable from the dictionary keeps a cached rendering computed
\* before the replacement of an entry below it.
AncestorsInvalidated == \A h \in Reachable : ~Stale(heap, Self(heap, h))

\* C7: a prove call for a non-integer target whose numerator and denominator
\* are keys (so both are proven at any depth) returns a string evaluating to
\* the target, and the target does not become a key.
NonIntegerTarget ==
    (/\ Settled
     /\ last.max_depth > 0
     /\ ~VIsInt(last.target)
     /\ Has(data, V(last.target[1]))
     /\ Has(data, V(last.target[2])))
    => (/\ last.kind = "string"
        /\ EvalString(last.str) = last.target
        /\ ~Has(data, last.target))

\* C8: a prove call with max_depth = 0 for a target that was not a key ends
\* with the depth error.
DepthExhaustion ==
    (Settled /\ last.max_depth = 0 /\ ~last.known) => last.kind = "DepthExhausted"

\* C9: a prove call returns a string or fails with the depth error or the
\* no-proof error, and with nothing else.
SingleFailureMode ==
    Settled => last.kind \in {"string", "DepthExhausted", "ProofNotFound"}

\* a round of the repeated division that every later round repeats: the
\* product is negative and the key is 1/m with m > 1, so product / key is
\* again a smaller integer
Endless(f) ==
    /\ f.kind = "base" /\ f.pc = "divloop"
    /\ VLess(f.product, V(0))
    /\ f.key_list[f.i + 1][1] = 1 /\ f.key_list[f.i + 1][2] > 1

\* C10: no invocation is ever in a repeated division that cannot end.
DivisionEnds == \A j \in 1..Len(stack) : ~Endless(stack[j])

\* C11: whatever on_progress was told during a prove call is the rendering of
\* the dictionary's entry for the target of that call, a string that
\* evaluates to the target; it is told nothing while the target has no entry
ProgressEntry ==
    last.heard # NoStr =>
        Has(data, last.target) /\ last.node = data.at[last.target]

ProgressSafety ==
    last.heard # NoStr =>
        /\ Has(data, last.target)
        /\ last.node = data.at[last.target]
        /\ EvalString(last.heard) = last.target

\* C12: for every integer n other than 0, 1 and -1, factorize returns two
\* integers whose product is n, exactly one of them negative when n is
FactorsOf(f) ==
    /\ VIsInt(f.factors[1]) /\ VIsInt(f.factors[2])
    /\ VMul(f.factors[1], f.factors[2]) = f.num
    /\ VLess(f.num, V(0)) =>
           (VLess(f.factors[1], V(0)) # VLess(f.factors[2], V(0)))

FactorizeProduct ==
    \A j \in 1..Len(stack) :
        (stack[j].factors # <<>> /\ VAbs(stack[j].num) \notin {V(0), V(1)})
            => FactorsOf(stack[j])

FactorizedNegative ==
    /\ stack # <<>> /\ Top.factors # <<>> /\ Top.num = V(-12)
    /\ Top.factors = <<V(3), V(-4)>>

\* C13: a unary minus built over a unary-minus node is the inner child of
\* that node itself, not a new node
DoubleNegation ==
    (added.operator = "u-" /\ is_neg_node(heap, added.children[1]))
        => /\ added.node = ChildrenOf(heap, added.children[1])[1]
           /\ ~is_neg_node(heap, added.node)

DoubleNegated ==
    /\ added.operator = "u-" /\ is_neg_node(heap, added.children[1])
    /\ added.node = 1

\* C14: a '*' or '/' with exactly one unary-minus operand is a unary minus
\* over the same operator on the un-negated operands; with two, it is that
\* operator on the un-negated operands; the value is that of the operator
\* applied to the operands as given
Unsigned(h, operator, children) ==
    /\ OpOf(heap, h) = operator
    /\ ChildrenOf(heap, h) =
           <<get_abs_node(heap, children[1]), get_abs_node(heap, children[2])>>

Hoisted(operator, children, node) ==
    IF is_neg_node(heap, children[1]) /\ is_neg_node(heap, children[2])
    THEN Unsigned(node, operator, children)
    ELSE IF is_neg_node(heap, children[1]) \/ is_neg_node(heap, children[2])
    THEN /\ is_neg_node(heap, node)
         /\ Unsigned(ChildrenOf(heap, node)[1], operator, children)
    ELSE TRUE

SignHoisting ==
    added.operator \in {"*", "/"} =>
        /\ Hoisted(added.operator, added.children, added.node)
        /\ Evaluate(heap, added.node) =
               Apply(added.operator, Evaluate(heap, added.children[1]),
                     Evaluate(heap, added.children[2]))

SignHoisted ==
    /\ added.operator = "/"
    /\ is_neg_node(heap, added.children[1]) /\ ~is_neg_node(heap, added.children[2])
    /\ is_neg_node(heap, added.node)
    /\ Evaluate(heap, added.node) = V(-1)

\* C15: the dictionary built from a base digit string b holds, under the
\* value of b, the leaf b; prove(b) is b and prove(-b) is "-" followed by b
IsLeaf(h, digits) ==
    heap[Self(heap, h)].kind = "num" /\ heap[Self(heap, h)].value = digits

LiteralProved ==
    /\ last.target = V(DigitsToInt(base)) => (last.kind = "string" /\ last.str = base)
    /\ last.target = V(-DigitsToInt(base)) =>
           (last.kind = "string" /\ last.str = <<"-">> \o base)

BaseLiteral ==
    /\ status # "failed"
    /\ status \in {"idle", "running", "waiting"} =>
           /\ Has(data, V(DigitsToInt(base)))
           /\ IsLeaf(data.at[V(DigitsToInt(base))], base)
    /\ Settled => LiteralProved

\* where the dictionary exists, the claim's scenario is as stated
BaseLiteralBuilt ==
    /\ status \in {"idle", "running", "waiting"} =>
           /\ Has(data, V(DigitsToInt(base)))
           /\ IsLeaf(data.at[V(DigitsToInt(base))], base)
    /\ Settled => LiteralProved

\* C16: between the start of a prove call and its completion no other prove
\* call runs: at most one search is in flight
InFlight == Len(parked) + (IF status = "idle" THEN 0 ELSE 1)

NoSuspension == InFlight <= 1

\* C17: once a strategy has given the invocation a result, no later
\* strategy of that invocation starts a sub-proof
Rank(pass) ==
    CASE pass = "factor" -> 1
      [] pass = "div" -> 2
      [] pass = "mul" -> 3
      [] pass = "mod" -> 4
      [] pass = "sub" -> 5
      [] pass = "add" -> 6
      [] OTHER -> 0

\* the strategy whose sub-proof the invocation is waiting for
Proving(f) ==
    CASE f.pc = "factor" -> "factor"
      [] f.pc = "div_await" -> "div"
      [] f.pc = "mod_await" -> "mod"
      [] f.pc = "sub_await" -> "sub"
      [] f.pc = "add_await" -> "add"
      [] OTHER -> ""

FirstPassWins ==
    \A j \in 1..Len(stack) :
        (stack[j].kind = "base" /\ stack[j].won # "")
            => Rank(Proving(stack[j])) <= Rank(stack[j].won)

\* C18: the keys a key-driven pass goes through are in order of
\* non-increasing magnitude
Descending(keys) ==
    \A a \in 1..Len(keys), b \in 1..Len(keys) :
        a < b => ~VLess(VAbs(keys[a]), VAbs(keys[b]))

KeyOrder ==
    \A j \in 1..Len(stack) : stack[j].kind = "base" => Descending(stack[j].key_list)

\* C19: in the division pass every accepted quotient is an integer smaller
\* in magnitude than the target, whatever the key
Accepted(f) == f.kind = "base" /\ f.pc \in {"divloop", "div_await"} /\ f.times > 0

ExactDivision ==
    \A j \in 1..Len(stack) :
        Accepted(stack[j]) =>
            /\ VIsInt(stack[j].product)
            /\ VLess(VAbs(stack[j].product), VAbs(stack[j].num))

\* C20: no domain error of a merge escapes the construction of a dictionary
MergeNonFatal == status = "new" \/ (status # "failed" /\ DOMAIN data.at # {})

\* C21: the merge of A and B holds, for every pair of keys a of A and b of
\* B, the keys a+b, a-b and a*b; a '/' node it made has an integer value;
\* a '^' node it made has operands no larger than the bound's length
MadeBy(operator) ==
    {h \in (added.size + 1)..Len(heap) :
        heap[h].kind = "op" /\ heap[h].operator = operator}

PairKeys(key1, key2) ==
    /\ Has(data, VAdd(key1, key2))
    /\ Has(data, VSub(key1, key2))
    /\ Has(data, VMul(key1, key2))

Pruned ==
    /\ \A h \in MadeBy("/") : VIsInt(Evaluate(heap, h))
    /\ \A h \in MadeBy("^") : \A i \in 1..2 :
           ~VLess(V(added.max_len), VAbs(Evaluate(heap, heap[h].children[i])))

MergeContents ==
    status # "new" =>
        /\ status = "idle"
        /\ \A key1 \in DOMAIN added.dict_1.at, key2 \in DOMAIN added.dict_2.at :
               PairKeys(key1, key2)
        /\ Pruned

\* the same for the merges that return
MergeContentsReturned ==
    status = "idle" =>
        /\ \A key1 \in DOMAIN added.dict_1.at, key2 \in DOMAIN added.dict_2.at :
               PairKeys(key1, key2)
        /\ Pruned

\* what the last split alone would give: merge(generate(n[0..L-2]),
\* generate(n[L-1]), bound), then the literal n added by the add rule
LastMerged(r, l, n, max_len) ==
    IF ~r.ok THEN r
    ELSE AddSelf(Merged(mergeDictionary(r.hp, l.d, r.d, max_len), r.gc), n)

LastRight(l, n, max_len) ==
    IF ~l.ok THEN l
    ELSE LastMerged(generateRecursive(l.hp, l.gc, <<n[Len(n)]>>, max_len), l, n, max_len)

LastSplit(n, max_len) ==
    LastRight(generateRecursive(<<>>, <<>>, SubSeq(n, 1, Len(n) - 1), max_len), n, max_len)

\* the same keys, each with the same expression tree
SameMapping(hp, d, ref) ==
    /\ DOMAIN d.at = DOMAIN ref.d.at
    /\ \A k \in DOMAIN d.at :
           Fresh(hp, Self(hp, d.at[k])).s = Fresh(ref.hp, Self(ref.hp, ref.d.at[k])).s

\* C22: the mapping generated for a digit string of two or more digits is the
\* merge of the mappings of its first L-1 digits and of its last digit, with
\* the literal and its negation added; the earlier split points contribute
\* nothing.
GeneratorLastSplit ==
    status # "new" =>
        /\ LastSplit(base, added.max_len).ok = (status = "idle")
        /\ status = "idle" => SameMapping(heap, data, LastSplit(base, added.max_len))

\* for the generations that return, the last split alone decides the mapping
GeneratorLastSplitReturned ==
    status = "idle" =>
        /\ LastSplit(base, added.max_len).ok
        /\ SameMapping(heap, data, LastSplit(base, added.max_len))

\* a three-digit string whose generation returned
GeneratedThree == status = "idle" /\ Len(base) = 3


\* C23: the dictionary a construction leaves is closed once more under the
\* merge: for any two keys a, b of the union of the generated mapping and the
\* literal's self-merge, a+b, a-b and a*b are keys of the initial dictionary.
BootstrapClosure ==
    (status = "idle" /\ calls = 0) =>
        \A a \in DOMAIN data.at, b \in DOMAIN data.at : PairKeys(a, b)


\* C24: every operator node is in the parent set of each node of its children
\* list as the constructor stored it.
BackReferences ==
    \A g \in 1..Len(heap) :
        heap[g].kind = "op" =>
            \A i \in DOMAIN heap[g].children :
                g \in heap[Self(heap, heap[g].children[i])].parents

\* the same for the nodes whose children list is the one that was passed
BackReferencesAsPassed ==
    (added.node # 0 /\ heap[added.node].children = added.children) =>
        \A i \in DOMAIN added.children :
            added.node \in heap[Self(heap, added.children[i])].parents


\* the step was old.replace(new) and left on new's target the parents of both
Transferred(old, new) ==
    heap'[Self(heap, new)].parents =
        heap[Self(heap, old)].parents \cup heap[Self(heap, new)].parents

Canonical(hp, t, parent_operator) == toStringImpl(Uncached(hp), t, parent_operator, {t}).s

\* C26: the string a rendering returns depends on the node's structure and on
\* the enclosing operator given, not on the renderings made before.
ContextKeyed ==
    added.operator = "toString" =>
        added.str = Canonical(heap, Self(heap, added.node), added.parent_operator)

\* the renderings that found no cached string on the way are canonical
ContextKeyedFirst ==
    [][(added'.operator = "toString"
            /\ \A t \in 1..Len(heap) : heap[t].cache.to_string = NoStr)
        => added'.str = Canonical(heap, Self(heap, added'.node), added'.parent_operator)]_vars


\* the three cases in which a child is rendered without parentheses
Unwrapped(hp, child, operator, is_left) ==
    \/ ~IsOp(hp, child)
    \/ Prec(OpOf(hp, child)) > Prec(operator)
    \/ /\ OpOf(hp, child) = operator
       /\ operator \in {"+", "*", "^"} \/ (operator \in {"-", "/"} /\ is_left)

\* the child alone, and in one pair of parentheses unless one of the cases holds
Side(hp, child, operator, is_left) ==
    IF Unwrapped(hp, child, operator, is_left)
    THEN Canonical(hp, Self(hp, child), "")
    ELSE Paren(Canonical(hp, Self(hp, child), ""))

Binary(hp, t) == hp[t].kind = "op" /\ Len(hp[t].children) = 2

\* C27: a binary operator node renders as its left child, its operator and
\* its right child, a child being bare when it is a leaf, when its operator
\* binds tighter than the node's, or when it has the node's operator and that
\* is '+', '*' or '^', or '-' or '/' on the left side; in one pair of
\* parentheses otherwise.
Parenthesization ==
    \A t \in 1..Len(heap) :
        Binary(heap, t) =>
            Canonical(heap, t, "") =
                Side(heap, heap[t].children[1], heap[t].operator, TRUE)
                    \o <<heap[t].operator>>
                    \o Side(heap, heap[t].children[2], heap[t].operator, FALSE)


\* the entries render after the step as they did before it
SameRenderings ==
    \A k \in DOMAIN data.at :
        k \in DOMAIN data'.at /\ Render(heap', data'.at[k]).s = Render(heap, data.at[k]).s

\* the invocation on top of the stack returns the entry of its target
EntryReturned ==
    /\ stack' = Pop
    /\ ret' = Returned(data.at[Top.num])

\* C28: an invocation whose target is a key returns that key's entry whatever
\* its depth, starts no sub-proof, and leaves the key set and the rendering of
\* every entry as they were.
ExactHitReadOnly ==
    [][ExactHit => (EntryReturned /\ DOMAIN data'.at = DOMAIN data.at /\ SameRenderings)]_vars

\* the entries are the expression trees they were
SameTrees ==
    \A k \in DOMAIN data.at :
        Fresh(heap', Self(heap', data'.at[k])).s = Fresh(heap, Self(heap, data.at[k])).s

\* the part of it that holds: the entry is returned, at any depth, with no
\* sub-proof, no new key and no entry replaced
ExactHitReturns ==
    [][ExactHit => (EntryReturned /\ DOMAIN data'.at = DOMAIN data.at /\ SameTrees)]_vars


\* toJSON: a number node gives its string, an operator node its operator and
\* the toJSON of its children (JsonEndless: the calls never return)
JsonNumber(value) == [operator |-> "", children |-> <<>>, value |-> value]
JsonOperator(operator, children) == [operator |-> operator, children |-> children, value |-> <<>>]
JsonEndless == [operator |-> "?", children |-> <<>>, value |-> <<>>]

RECURSIVE toJSON(_, _, _)
toJSON(hp, t, path) ==
    IF hp[t].kind = "num" THEN JsonNumber(hp[t].value)
    ELSE IF t \in path THEN JsonEndless
    ELSE LET children == [i \in DOMAIN hp[t].children |->
                             toJSON(hp, Self(hp, hp[t].children[i]), path \cup {t})]
         IN  IF \E i \in DOMAIN children : children[i] = JsonEndless THEN JsonEndless
             ELSE JsonOperator(hp[t].operator, children)

\* ast_node_t.fromJSON: the constructors are called again, children first
RECURSIVE fromJSON(_, _)
fromJSON(hp, json) ==
    IF json.operator = "" THEN number_node_t(hp, json.value)
    ELSE IF Len(json.children) = 1
    THEN LET a == fromJSON(hp, json.children[1])
         IN  operator_node_t(a.hp, json.operator, <<a.h>>)
    ELSE LET a == fromJSON(hp, json.children[1])
             b == fromJSON(a.hp, json.children[2])
         IN  operator_node_t(b.hp, json.operator, <<a.h, b.h>>)

Serialized(h) == toJSON(heap, Self(heap, h), {})

SameTree(n, json) == toJSON(n.hp, Self(n.hp, n.h), {}) = json

SameValue(n, h) == Evaluate(n.hp, n.h) = Evaluate(heap, h)

\* C29: every node reachable from the dictionary, serialized and
\* deserialized, serializes to the same tree and evaluates to the same value.
SerializationRoundTrip ==
    \A h \in Reachable :
        Serialized(h) # JsonEndless =>
            /\ SameTree(fromJSON(<<>>, Serialized(h)), Serialized(h))
            /\ SameValue(fromJSON(<<>>, Serialized(h)), h)

\* the value at least comes back
SerializationKeepsValue ==
    \A h \in Reachable :
        Serialized(h) # JsonEndless => SameValue(fromJSON(<<>>, Serialized(h)), h)


\* the depth argument falls by one at each level of nesting
OnePerLevel == \A j \in 1..Len(stack) : stack[j].max_depth = last.max_depth - (j - 1)

\* an invocation with no depth left has called no other and derives nothing
NothingBelowZero ==
    \A j \in 1..Len(stack) :
        stack[j].max_depth <= 0 => (j = Len(stack) /\ stack[j].pc = "enter")

\* C30: along the invocations nested in a prove call of depth d, the depth
\* argument falls by exactly one per level, an invocation whose depth is zero
\* or less only returns an exact hit or raises DepthExhausted, and no more
\* than d + 1 invocations are nested.
DepthBudget ==
    /\ OnePerLevel
    /\ NothingBelowZero
    /\ Len(stack) <= last.max_depth + 1

\* the budget is respected by the calls for an integer target
DepthBudgetIntegers ==
    /\ OnePerLevel
    /\ VIsInt(last.target) => (NothingBelowZero /\ Len(stack) <= last.max_depth + 1)


\* n is the product of two integers above 1
Composite(n) == \E a \in 2..n, b \in 2..n : a * b = n

Trivial(factor) == VAbs(factor) = V(1)

Split(f) ==
    (f.pc = "factor" /\ VIsInt(f.num) /\ Composite(VAbs(f.num)[1]))
        => (~Trivial(f.factors[1]) /\ ~Trivial(f.factors[2]))

\* C31: for every integer whose absolute value is composite, squares of
\* primes included, neither factor that factorize returns is 1 or -1.
NonTrivialSplit == \A j \in 1..Len(stack) : Split(stack[j])

\* the same but for the squares: a divisor below the square root is found
NonTrivialSplitBelowRoot ==
    \A j \in 1..Len(stack) :
        (\A a \in 2..MaxNum : a * a # VAbs(stack[j].num)[1]) => Split(stack[j])


\* C32: when a prove call for an integer target returns a string, the
\* callback was called at least once during the call and the string of its
\* last call is the string returned.
ProgressReachesCaller ==
    (last.kind = "string" /\ VIsInt(last.target))
        => (last.heard # NoStr /\ last.heard = last.str)

\* the callback was called at least once
ProgressHeard == (last.kind = "string" /\ VIsInt(last.target)) => last.heard # NoStr


\* C33: with two prove calls interleaved at their awaits on one dictionary,
\* each call that returns a string returns one that evaluates to its own
\* target, and every entry evaluates to its key in every state.
InterleavedQueries ==
    calls >= 2 =>
        /\ (last.kind = "string" /\ VIsInt(last.target)) => EvalString(last.str) = last.target
        /\ \A k \in DOMAIN data.at : Evaluate(heap, data.at[k]) = k

\* targetNumInput.value: the target of the call made last
targetNumInput == IF calls <= 1 THEN {last.target} ELSE Targets(base, 2)

\* the progress callback runs: proofExpressionDiv.textContent is written
LineWritten == status = "running" /\ status' = "waiting"

\* C34: every line written to the proof area carries an expression derived
\* for the target that is in the input field when the line is written: the
\* callback of a superseded call writes nothing next to the new target.
DisplayedProof == [][LineWritten => last'.target \in targetNumInput']_vars

\* the expression written is always one for the target its own call was given
DisplayedOwnTarget == [][LineWritten => last'.heard # NoStr]_vars

\* operator, operands and digits of the node a handle stands for
Structure(hp, h) ==
    [kind |-> hp[Self(hp, h)].kind, operator |-> hp[Self(hp, h)].operator,
     children |-> hp[Self(hp, h)].children, value |-> hp[Self(hp, h)].value]

Unmemoized == generateRecursive(<<>>, <<>>, base, added.max_len).d

\* C36: the mapping a call returns has the key set of a computation of the
\* same string under the same bound that starts from an empty cache,
\* whatever the calls made before.
MemoTransparent == (calls > 0 /\ status = "idle") => DOMAIN data.at = DOMAIN Unmemoized.at

\* it is so for the first call
MemoTransparentFirst == (calls = 1 /\ status = "idle") => DOMAIN data.at = DOMAIN Unmemoized.at


\* the rendering, made with no enclosing operator, and the value of each node
\* reachable from the dictionary
Renderings == [h \in Reachable |-> Render(heap, h)]
Values == [h \in Reachable |-> Evaluate(heap, h)]

ScanIndexInRange ==
    \A j \in 1..Len(stack) :
        (stack[j].pc \in {"div", "mod"} /\ stack[j].i < Len(stack[j].key_list))
            => stack[j].i >= 0

\* an array that holds exactly the keys of the dictionary, each once, by
\* descending value
SortedKeySet(keys, d) ==
    /\ Len(keys) = Cardinality(DOMAIN d.at)
    /\ {keys[i] : i \in 1..Len(keys)} = DOMAIN d.at
    /\ \A a, b \in 1..Len(keys) : a < b => VLess(keys[b], keys[a])

\* C39: no key is ever removed from the dictionary, and in every state
\* getKeys() returns exactly the current keys, each once, in sorted order.
KeyCacheCoherent ==
    /\ [](status # "new" => SortedKeySet(getKeys(sortedKeys, data), data))
    /\ [][DOMAIN data.at \subseteq DOMAIN data'.at]_vars

\* the cached array was dropped and built again after the dictionary grew
CacheRebuilt ==
    /\ Len(sortedKeys) > Len(FirstBuilt[base].d.ks)
    /\ Len(sortedKeys) = Len(data.ks)

\* the cached array is behind the dictionary, about to be dropped
CacheStale == sortedKeys # <<>> /\ Len(sortedKeys) < Len(data.ks)

====
